---- MODULE Spec2Model ----
(***************************************************************************)
(* A model of redis_panel.py: the tracking Redis client and pipeline that  *)
(* time every command and broadcast it on the redis_call signal, and the   *)
(* RedisPanel that records the broadcasts of one request.                  *)
(***************************************************************************)
EXTENDS Integers, Sequences, FiniteSets, TLC

\* ------------------------------------------------------------------ bounds
MaxCalls == 3       \* call dicts built by make_call_dict over a behaviour
MaxEvents == 2      \* intercepted operations over a behaviour
MaxQueue == 2       \* commands queued on the pipeline's command_stack
MaxRequests == 2    \* requests served, one after another
MaxListeners == 1   \* receivers other than panels connected to redis_call
MaxLatency == 1     \* ticks the wrapped call may take, at most
UnicodeTicks == 1   \* ticks one unicode() conversion takes

VARIABLES
    now,            \* time.time()
    enable_stack,   \* settings.DEBUG_TOOLBAR_CONFIG['ENABLE_STACKTRACES']
    heap,           \* the call dicts, by identity (index)
    receivers,      \* redis_call's live receivers, in connection order
    panels,         \* the RedisPanel objects that exist: id -> self.calls
    current,        \* the panel of the request being served, 0 for none
    requests,       \* requests started so far
    command_stack,  \* the pipeline's queued (args, options)
    sent,           \* every send_robust so far: the request it was made in,
                    \* duration, calls, the commands issued, the traces captured
    underlying,     \* what the wrapped call did in the last operation
    result,         \* what the caller of the last operation got
    lastOp,         \* the last intercepted operation
    emitted,        \* events the last operation emitted
    delivery        \* receivers the last event was handed to, and who raised

vars == <<now, enable_stack, heap, receivers, panels, current, requests,
          command_stack, sent, underlying, result, lastOp, emitted, delivery>>

\* ------------------------------------------------------------ python values
PyStr(b) == [type |-> "str", bytes |-> b]
PyInt(n) == [type |-> "int", value |-> n]

\* The replies the store gives: the byte string '\xe9' and the integer 1.
Results == {PyStr(<<233>>), PyInt(1)}
Errors == {"ConnectionError"}

Return(v) == [kind |-> "return", value |-> v]
Raise(e) == [kind |-> "raise", error |-> e]
NoOutcome == [kind |-> "none"]

\* unicode(ret) of Python 2: a str is decoded as ASCII and a byte above 127
\* raises UnicodeDecodeError; an int gives its digits.
UnicodeRaises(v) == v.type = "str" /\ \E i \in 1..Len(v.bytes) : v.bytes[i] > 127
Unicode(v) ==
    [type |-> "unicode",
     text |-> IF v.type = "str" THEN v.bytes ELSE <<48 + v.value>>]

\* ------------------------------------------------------------------ frames
\* A frame of tidy_stacktrace: (path, line_no, func_name, text); the path is
\* kept as its components between os.path.sep.
CallerFrame == <<<<"app", "views.py">>, 10, "index", "r.get('key1')">>
ScriptFrame == <<<<"manage.py">>, 5, "<module>", "main()">>
CallerStacks == {<<ScriptFrame, CallerFrame>>}

ClientFrame == <<<<"redis", "client.py">>, 863, "get", "return self.execute_command('GET', name)">>
CommandFrame == <<<<"redis_panel.py">>, 46, "execute_command", "call = self.make_call_dict(2, func_name, *args, **kwargs)">>
ExecuteFrame == <<<<"redis_panel.py">>, 66, "execute", "tr['calls'].append(self.make_call_dict(1, *arguments, **options))">>
MakeFrame == <<<<"redis_panel.py">>, 32, "make_call_dict", "trace =  enable_stack and tidy_stacktrace(reversed(get_stack()))[:-depth-1] or []">>

List(items) == [type |-> "list", items |-> items]
SafeUnicode(text) == [type |-> "SafeUnicode", text |-> text]

\* ------------------------------------------------------- render_stacktrace
\* django.utils.html.escape on the texts the frames hold (& < > " ' are
\* replaced).
escape(x) ==
    CASE x = "<module>" -> "&lt;module&gt;"
      [] x = "r.get('key1')" -> "r.get(&#39;key1&#39;)"
      [] x = "return self.execute_command('GET', name)"
            -> "return self.execute_command(&#39;GET&#39;, name)"
      [] OTHER -> x

RECURSIVE join(_, _)
join(sep, parts) ==
    IF parts = <<>> THEN ""
    ELSE IF Len(parts) = 1 THEN parts[1]
    ELSE parts[1] \o sep \o join(sep, Tail(parts))

\* path.rsplit(os.path.sep, 1)
rsplit(path) ==
    IF Len(path) = 1 THEN <<path[1]>>
    ELSE <<join("/", SubSeq(path, 1, Len(path) - 1)), path[Len(path)]>>

\* map(escape, frame[0].rsplit(os.path.sep, 1) + list(frame[1:])); escape
\* turns the line number into its digits.
FrameParams(frame) ==
    LET raw == rsplit(frame[1]) \o <<ToString(frame[2]), frame[3], frame[4]>>
    IN  [i \in 1..Len(raw) |-> escape(raw[i])]

\* The format string of render_stacktrace uses {0} .. {4}: fewer than five
\* parameters raise IndexError.
FormatRaises(params) == Len(params) < 5

FormatFrame(params) ==
    "<span class=\"path\">" \o params[1] \o "/</span><span class=\"file\">"
    \o params[2] \o "</span> in <span class=\"func\">" \o params[4]
    \o "</span>(<span class=\"lineno\">" \o params[3]
    \o "</span>)\n  <span class=\"code\">" \o params[5] \o "</span>"

RECURSIVE RenderFrames(_)
RenderFrames(frames) ==
    IF frames = <<>> THEN <<>>
    ELSE LET params == FrameParams(Head(frames))
         IN  (IF FormatRaises(params) THEN <<>> ELSE <<FormatFrame(params)>>)
             \o RenderFrames(Tail(frames))

\* Iterating a string gives its characters: c.rsplit(sep, 1) has at most two
\* parts ('/' gives ['', '']) and list(c[1:]) is empty, so every character
\* is a frame with at most two parameters.
RenderChars(n) ==
    LET frames == [i \in 1..n |-> <<"", "">>]
        kept == SelectSeq(frames, LAMBDA params : ~FormatRaises(params))
    IN  [i \in 1..Len(kept) |-> FormatFrame(kept[i])]

render_stacktrace(trace) ==
    SafeUnicode(join("\n",
        IF trace.type = "list" THEN RenderFrames(trace.items)
        ELSE RenderChars(Len(trace.text))))

\* ----------------------------------------------------------- make_call_dict
repr(s) == "'" \o s \o "'"

\* tidy_stacktrace(reversed(get_stack()))[:-depth-1]
Trim(stack, depth) ==
    IF Len(stack) - depth - 1 <= 0 THEN <<>>
    ELSE SubSeq(stack, 1, Len(stack) - depth - 1)

make_call_dict(depth, args, kwargs, stack) ==
    LET trace == IF enable_stack THEN Trim(stack, depth) ELSE <<>>
        arguments == [i \in 1..(IF Len(args) > 2 THEN Len(args) - 2 ELSE 0)
                        |-> repr(args[i + 2])]
        options == [i \in 1..Len(kwargs)
                        |-> kwargs[i][1] \o "=" \o repr(kwargs[i][2])]
    IN  [function |-> args[1],
         key |-> IF Len(args) > 1 THEN args[2] ELSE "",
         args |-> join(" , ", arguments \o options),
         trace |-> List(trace)]

\* The commands issued: (args, options) as the pipeline queues them.
Commands ==
    {[args |-> <<"GET", "key1">>, options |-> <<>>],
     [args |-> <<"SET", "key2", "v2">>, options |-> <<>>]}
Latencies == 1..MaxLatency

\* ------------------------------------------------------------- RedisPanel
Range(f) == {f[i] : i \in DOMAIN f}

\* _add_call with the batch put first instead of appended.
AddCallFirst(st, p, duration, calls) ==
    [heap |-> [i \in DOMAIN st.heap |->
                  IF i \in Range(calls)
                  THEN [st.heap[i] EXCEPT !.trace = render_stacktrace(@)]
                  ELSE st.heap[i]],
     panels |-> [st.panels EXCEPT ![p].calls =
                    <<[duration |-> duration, calls |-> calls]>> \o @]]

\* RedisPanel._add_call: st is the memory, [heap, panels].
_add_call(st, p, duration, calls) ==
    [heap |-> [i \in DOMAIN st.heap |->
                  IF i \in Range(calls)
                  THEN [st.heap[i] EXCEPT !.trace = render_stacktrace(@)]
                  ELSE st.heap[i]],
     panels |-> [st.panels EXCEPT ![p].calls =
                    Append(@, [duration |-> duration, calls |-> calls])]]

RECURSIVE SumDurations(_)
SumDurations(batches) ==
    IF batches = <<>> THEN 0
    ELSE Head(batches).duration + SumDurations(Tail(batches))

\* RedisPanel.nav_subtitle: the values given to the label.
nav_subtitle(p) ==
    [calls |-> Len(panels[p].calls),
     duration |-> SumDurations(panels[p].calls)]

\* The count set to 1 instead of incremented.
CountOnce(commands, name) ==
    IF name \in DOMAIN commands
    THEN [commands EXCEPT ![name] = 1]
    ELSE commands @@ (name :> 1)

\* commands[name] = commands.get(name, 0) + 1
Count(commands, name) ==
    IF name \in DOMAIN commands
    THEN [commands EXCEPT ![name] = @ + 1]
    ELSE commands @@ (name :> 1)

RECURSIVE CountCalls(_, _)
CountCalls(commands, calls) ==
    IF calls = <<>> THEN commands
    ELSE CountCalls(Count(commands, heap[Head(calls)].function), Tail(calls))

RECURSIVE CountBatches(_, _)
CountBatches(commands, batches) ==
    IF batches = <<>> THEN commands
    ELSE CountBatches(CountCalls(commands, Head(batches).calls), Tail(batches))

\* RedisPanel.content: the context given to the template.
content(p) ==
    [calls |-> panels[p].calls,
     commands |-> CountBatches(<<>>, panels[p].calls)]

\* ------------------------------------------------- redis_call.send_robust
\* A receiver is a panel's _add_call or another listener; an exception of a
\* receiver is caught and returned with the responses.
RECURSIVE Deliver(_, _, _, _)
Deliver(todo, duration, calls, st) ==
    IF todo = <<>> THEN st
    ELSE LET r == Head(todo)
             mem == IF r.kind = "panel"
                    THEN _add_call([heap |-> st.heap, panels |-> st.panels],
                                   r.id, duration, calls)
                    ELSE [heap |-> st.heap, panels |-> st.panels]
             failed == r.kind = "listener"
         IN  Deliver(Tail(todo), duration, calls,
                     [heap |-> mem.heap,
                      panels |-> mem.panels,
                      to |-> Append(st.to, r),
                      raised |-> IF failed THEN Append(st.raised, r) ELSE st.raised])

send_robust(duration, calls, h) ==
    Deliver(receivers, duration, calls,
            [heap |-> h, panels |-> panels, to |-> <<>>, raised |-> <<>>])

\* ------------------------------------------------------------------- Init
Init ==
    /\ now = 0
    /\ enable_stack \in BOOLEAN
    /\ heap = <<>>
    /\ receivers = <<>>
    /\ panels = <<>>
    /\ current = 0
    /\ requests = 0
    /\ command_stack = <<>>
    /\ sent = <<>>
    /\ underlying = NoOutcome
    /\ result = NoOutcome
    /\ lastOp = "none"
    /\ emitted = 0
    /\ delivery = [of |-> <<>>, to |-> <<>>, raised |-> <<>>]

\* ---------------------------------------------------------------- actions
\* A request starts: the toolbar builds its RedisPanel, which connects.
StartRequest ==
    /\ current = 0
    /\ requests < MaxRequests
    /\ requests' = requests + 1
    /\ current' = requests + 1
    /\ panels' = panels @@ ((requests + 1) :> [calls |-> <<>>])
    /\ receivers' = Append(receivers, [kind |-> "panel", id |-> requests + 1])
    /\ UNCHANGED <<now, enable_stack, heap, command_stack, sent, underlying,
                   result, lastOp, emitted, delivery>>

\* The request ends: nothing disconnects the panel; it stays a receiver
\* until the object is collected.
EndRequest ==
    /\ current # 0
    /\ current' = 0
    /\ UNCHANGED <<now, enable_stack, heap, receivers, panels, requests,
                   command_stack, sent, underlying, result, lastOp, emitted,
                   delivery>>

\* A panel no request holds is collected: its weak receiver dies.
Collect(p) ==
    /\ p \in DOMAIN panels
    /\ p # current
    /\ panels' = [q \in DOMAIN panels \ {p} |-> panels[q]]
    /\ receivers' = SelectSeq(receivers, LAMBDA r : ~(r.kind = "panel" /\ r.id = p))
    /\ UNCHANGED <<now, enable_stack, heap, current, requests, command_stack,
                   sent, underlying, result, lastOp, emitted, delivery>>

\* Another receiver connects to the exported signal: one that raises on
\* every event.
ConnectListener ==
    /\ Cardinality({i \in DOMAIN receivers : receivers[i].kind = "listener"})
          < MaxListeners
    /\ receivers' = Append(receivers, [kind |-> "listener"])
    /\ UNCHANGED <<now, enable_stack, heap, panels, current, requests,
                   command_stack, sent, underlying, result, lastOp, emitted,
                   delivery>>

\* TrackingRedisMixin.execute_command, for one command, what the wrapped
\* execute_command does (outcome, after latency ticks) and the caller's stack.
execute_command(cmd, outcome, latency, stack) ==
    /\ Len(sent) < MaxEvents
    /\ Len(heap) + Len(command_stack) < MaxCalls
    /\ LET call == make_call_dict(2, cmd.args, cmd.options,
                       stack \o <<ClientFrame, CommandFrame, MakeFrame>>)
           start == now
           returned == outcome.kind = "return"
           formatted == returned /\ ~UnicodeRaises(outcome.value)
           done == IF formatted
                   THEN call @@ [return |-> Unicode(outcome.value)]
                   ELSE call
           stop == start + latency + (IF returned THEN UnicodeTicks ELSE 0)
           duration == (stop - start) * 1000
           calls == <<Len(heap) + 1>>
           st == send_robust(duration, calls, Append(heap, done))
       IN  /\ heap' = st.heap
           /\ panels' = st.panels
           /\ delivery' = [of |-> receivers, to |-> st.to, raised |-> st.raised]
           /\ sent' = Append(sent, [request |-> current, duration |-> duration,
                                    calls |-> calls, issued |-> <<cmd>>,
                                    captured |-> <<call.trace>>])
           /\ emitted' = 1
           /\ now' = stop
           /\ result' = IF ~returned THEN outcome
                        ELSE IF ~formatted THEN Raise("UnicodeDecodeError")
                        ELSE Return(outcome.value)
    /\ underlying' = outcome @@ [latency |-> latency]
    /\ lastOp' = "execute_command"
    /\ UNCHANGED <<enable_stack, receivers, current, requests, command_stack>>

\* BasePipeline.pipeline_execute_command: the command is queued.
Queue(cmd) ==
    /\ Len(sent) < MaxEvents
    /\ Len(command_stack) < MaxQueue
    /\ Len(heap) + Len(command_stack) < MaxCalls
    /\ command_stack' = Append(command_stack, cmd)
    /\ UNCHANGED <<now, enable_stack, heap, receivers, panels, current,
                   requests, sent, underlying, result, lastOp, emitted, delivery>>

\* The first reply unicode() raises on, 0 when it raises on none.
FirstRaising(ret) ==
    IF \E i \in 1..Len(ret) : UnicodeRaises(ret[i])
    THEN CHOOSE i \in 1..Len(ret) :
            /\ UnicodeRaises(ret[i])
            /\ \A j \in 1..(i - 1) : ~UnicodeRaises(ret[j])
    ELSE 0

\* BaseTrackingPipeline.execute: the wrapped execute gives one reply per
\* queued command, or raises, and empties the command stack.
execute(outcome, latency, stack) ==
    /\ Len(sent) < MaxEvents
    /\ outcome.kind = "return" => Len(outcome.value) = Len(command_stack)
    /\ LET n == Len(command_stack)
           built == [i \in 1..n |->
                       make_call_dict(1, command_stack[i].args,
                                      command_stack[i].options,
                                      stack \o <<ExecuteFrame, MakeFrame>>)]
           start == now
           returned == outcome.kind = "return"
           bad == IF returned THEN FirstRaising(outcome.value) ELSE 0
           \* calls whose 'return' the loop has set when it ends
           set == IF ~returned THEN 0 ELSE IF bad = 0 THEN n ELSE bad - 1
           conversions == IF ~returned THEN 0 ELSE IF bad = 0 THEN n ELSE bad
           done == [i \in 1..n |->
                       IF i <= set
                       THEN built[i] @@ [return |-> Unicode(outcome.value[i])]
                       ELSE built[i]]
           stop == start + latency + conversions * UnicodeTicks
           duration == (stop - start) * 1000
           calls == [i \in 1..n |-> Len(heap) + i]
           st == send_robust(duration, calls, heap \o done)
       IN  /\ heap' = st.heap
           /\ panels' = st.panels
           /\ delivery' = [of |-> receivers, to |-> st.to, raised |-> st.raised]
           /\ sent' = Append(sent, [request |-> current, duration |-> duration,
                                    calls |-> calls, issued |-> command_stack,
                                    captured |-> [i \in 1..n |-> built[i].trace]])
           /\ emitted' = 1
           /\ now' = stop
           /\ result' = IF ~returned THEN outcome
                        ELSE IF bad # 0 THEN Raise("UnicodeDecodeError")
                        ELSE Return(outcome.value)
    /\ underlying' = outcome @@ [latency |-> latency]
    /\ lastOp' = "execute"
    /\ command_stack' = <<>>
    /\ UNCHANGED <<enable_stack, receivers, current, requests>>

Outcomes == {Return(v) : v \in Results} \cup {Raise(e) : e \in Errors}
Replies ==
    UNION {{Return(r) : r \in [1..n -> Results]} : n \in 0..MaxQueue}
    \cup {Raise(e) : e \in Errors}

Next ==
    \/ StartRequest
    \/ EndRequest
    \/ \E p \in 1..MaxRequests : Collect(p)
    \/ ConnectListener
    \/ \E cmd \in Commands, outcome \in Outcomes, latency \in Latencies,
          stack \in CallerStacks : execute_command(cmd, outcome, latency, stack)
    \/ \E cmd \in Commands : Queue(cmd)
    \/ \E outcome \in Replies, latency \in Latencies,
          stack \in CallerStacks : execute(outcome, latency, stack)

Spec == Init /\ [][Next]_vars

\* ----------------------------------------------------------------- claims
Last(seq) == seq[Len(seq)]
HasReturn(call) == "return" \in DOMAIN call

\* The caller got what the wrapped call gave: its value, or its error.
Transparent ==
    /\ underlying.kind = "return" => result = Return(underlying.value)
    /\ underlying.kind = "raise" => result = Raise(underlying.error)

\* The events of sent made in request p, as the batches a recorder holds.
RECURSIVE EventsOf(_, _)
EventsOf(p, events) ==
    IF events = <<>> THEN <<>>
    ELSE (IF Head(events).request = p
          THEN <<[duration |-> Head(events).duration, calls |-> Head(events).calls]>>
          ELSE <<>>) \o EventsOf(p, Tail(events))

\* The calls of panel p, as (batch, position) pairs.
CallsOf(p) ==
    {<<i, j>> \in (1..MaxEvents) \X (1..MaxCalls) :
        /\ i <= Len(panels[p].calls)
        /\ j <= Len(panels[p].calls[i].calls)}
FunctionAt(p, ij) == heap[panels[p].calls[ij[1]].calls[ij[2]]].function
FunctionNames == {cmd.args[1] : cmd \in Commands}

\* C1: after every intercepted command and every intercepted batch the
\* caller has exactly the value the wrapped call returned, or exactly the
\* error it raised, never an error of the interceptor.
C1_Transparent == lastOp # "none" => Transparent

\* C2: a single command emits exactly one event with one Call; when the
\* wrapped call returned, the Call's return is the formatted reply; when it
\* raised, the Call has no return and the caller gets that error.
C2_OneCallEvent ==
    lastOp = "execute_command" =>
        /\ emitted = 1
        /\ Len(Last(sent).calls) = 1
        /\ LET call == heap[Last(sent).calls[1]]
           IN  /\ underlying.kind = "return" =>
                     /\ HasReturn(call)
                     /\ call.return = Unicode(underlying.value)
               /\ underlying.kind = "raise" =>
                     /\ ~HasReturn(call)
                     /\ result = Raise(underlying.error)

\* C3: a batch of M queued commands emits exactly one event with M Calls in
\* issue order; when the wrapped execute returned, every Call's return is
\* the formatted reply at its position; when it raised, no Call has a
\* return; never only some of the Calls have one.
C3_BatchEvent ==
    lastOp = "execute" =>
        LET event == Last(sent)
            n == Len(event.issued)
        IN  /\ emitted = 1
            /\ Len(event.calls) = n
            /\ \A i \in 1..n :
                  heap[event.calls[i]].function = event.issued[i].args[1]
            /\ underlying.kind = "return" =>
                  /\ Len(underlying.value) = n
                  /\ \A i \in 1..n :
                        /\ HasReturn(heap[event.calls[i]])
                        /\ heap[event.calls[i]].return = Unicode(underlying.value[i])
            /\ underlying.kind = "raise" =>
                  \A i \in 1..n : ~HasReturn(heap[event.calls[i]])
            /\ \/ \A i \in 1..n : HasReturn(heap[event.calls[i]])
               \/ \A i \in 1..n : ~HasReturn(heap[event.calls[i]])

\* The durations of the first k Batches of panel p, added up.
RECURSIVE DurationUpTo(_, _)
DurationUpTo(p, k) ==
    IF k = 0 THEN 0 ELSE panels[p].calls[k].duration + DurationUpTo(p, k - 1)

\* C4: the summary of every recorder gives as call count the number of
\* Calls over all its Batches and as duration the sum of their durations.
C4_Summary ==
    \A p \in DOMAIN panels :
        /\ nav_subtitle(p).calls = Cardinality(CallsOf(p))
        /\ nav_subtitle(p).duration = DurationUpTo(p, Len(panels[p].calls))

\* C5: the per-command summary of every recorder is exact: a name is in it
\* exactly when some recorded Call has it, with the number of recorded
\* Calls having it, and the counts add up to the number of recorded Calls.
C5_CommandCounts ==
    \A p \in DOMAIN panels :
        LET commands == content(p).commands
            Occ(c) == Cardinality({ij \in CallsOf(p) : FunctionAt(p, ij) = c})
            total == Cardinality(CallsOf(p))
        IN  /\ DOMAIN commands = {c \in FunctionNames : Occ(c) > 0}
            /\ \A c \in DOMAIN commands : commands[c] = Occ(c)
            /\ (IF "GET" \in DOMAIN commands THEN commands["GET"] ELSE 0)
               + (IF "SET" \in DOMAIN commands THEN commands["SET"] ELSE 0) = total

\* A recorder holding GET, SET, GET: {GET: 2, SET: 1}.
C5_Witness ==
    \E p \in DOMAIN panels :
        /\ DOMAIN content(p).commands = {"GET", "SET"}
        /\ content(p).commands["GET"] = 2
        /\ content(p).commands["SET"] = 1

\* C6: when a listener raised on the last event, the caller still has the
\* wrapped call's value or error, and every registered receiver was handed
\* the event.
C6_BestEffort ==
    delivery.raised # <<>> =>
        /\ Transparent
        /\ delivery.to = delivery.of

\* C7: the duration of every operation is the time the wrapped call took.
C7_Brackets ==
    lastOp # "none" => Last(sent).duration = underlying.latency * 1000

\* C8: the recorder of the request being served holds one Batch for each
\* event emitted in the request, in the order of emission, each with its
\* Calls in issue order.
C8_ArrivalOrder ==
    current # 0 =>
        /\ panels[current].calls = EventsOf(current, sent)
        /\ \A e \in 1..Len(sent) :
              /\ Len(sent[e].calls) = Len(sent[e].issued)
              /\ \A i \in 1..Len(sent[e].calls) :
                    /\ heap[sent[e].calls[i]].function = sent[e].issued[i].args[1]
                    /\ heap[sent[e].calls[i]].key = sent[e].issued[i].args[2]

\* The recorder holds a pipeline's Batch of two Calls after a lone command's.
C8_Witness ==
    /\ current # 0
    /\ Len(panels[current].calls) = 2
    /\ Len(panels[current].calls[1].calls) = 1
    /\ Len(panels[current].calls[2].calls) = 2

\* The trace captured for call id.
Captured(id) ==
    LET e == CHOOSE e \in 1..Len(sent) : id \in Range(sent[e].calls)
        i == CHOOSE i \in 1..Len(sent[e].calls) : sent[e].calls[i] = id
    IN  sent[e].captured[i]

\* C9: the trace of every Call a recorder holds is the rendering of the
\* frames captured for it.
C9_RenderedOnce ==
    \A p \in DOMAIN panels :
        \A i \in 1..Len(panels[p].calls) :
            \A id \in Range(panels[p].calls[i].calls) :
                heap[id].trace = render_stacktrace(Captured(id))

\* C10: every recorder holds the events emitted in its own request and no
\* others.
C10_RequestScoped ==
    \A p \in DOMAIN panels : panels[p].calls = EventsOf(p, sent)

====
